---- MODULE Spec2Model ----
(***************************************************************************)
(* Model of the profiler controller of quipo/goprofiler                    *)
(* (package profiler: Config, profiler, Run, TakeSnapshot, Stop and the    *)
(* per-kind snapshot writers).                                             *)
(*                                                                         *)
(* Two units of execution are modelled: "loop", the goroutine that runs    *)
(* Run (go prof.Run()), and "caller", the goroutine that calls Stop and    *)
(* TakeSnapshot.  Each statement of the source that touches shared state   *)
(* (the closers slice, the runtime's profiling switches, the filesystem)   *)
(* is one step, so the two interleave at statement granularity.            *)
(***************************************************************************)
EXTENDS Integers, Sequences, FiniteSets, TLC

\* ------------------------------------------------------------------ bounds
MaxCycles == 2       \* timer expiries followed in one behaviour
MaxClock == 2        \* wall-clock seconds that may elapse
MaxCallerSnaps == 2  \* direct TakeSnapshot calls of the caller
MaxRunCalls == 2     \* top-level calls of Run
MaxStops == 2        \* calls of Stop

Procs == {"loop", "caller"}
Kinds == {"cpu", "mem", "block", "goroutine", "mutex"}

\* ------------------------------------------------- interval strings, parsing
\* Strings are sequences of one-character strings.
Str100ms == <<"1", "0", "0", "m", "s">>
Str1s == <<"1", "s">>
StrBanana == <<"b", "a", "n", "a", "n", "a">>
StrEmpty == <<>>
Intervals == {StrEmpty, Str100ms, Str1s, StrBanana}

DigitChars == <<"0", "1", "2", "3", "4", "5", "6", "7", "8", "9">>
IsDigit(c) == \E i \in 1..10 : DigitChars[i] = c
DigitVal(c) == (CHOOSE i \in 1..10 : DigitChars[i] = c) - 1

\* time.unitMap, in milliseconds (units below a millisecond truncate to 0)
UnitNames == << <<"n", "s">>, <<"u", "s">>, <<"m", "s">>, <<"s">>, <<"m">>, <<"h">> >>
UnitMillis == <<0, 0, 1, 1000, 60000, 3600000>>
Second == 1000

\* length of the leading run of digits of s
RECURSIVE LeadDigits(_)
LeadDigits(s) ==
  IF s = <<>> \/ ~IsDigit(Head(s)) THEN 0 ELSE 1 + LeadDigits(Tail(s))

\* length of the leading run of non-digits of s (the unit of one component)
RECURSIVE LeadUnit(_)
LeadUnit(s) ==
  IF s = <<>> \/ IsDigit(Head(s)) THEN 0 ELSE 1 + LeadUnit(Tail(s))

RECURSIVE LeadingInt(_, _)
LeadingInt(s, acc) ==
  IF s = <<>> THEN acc ELSE LeadingInt(Tail(s), acc * 10 + DigitVal(Head(s)))

\* time.ParseDuration on unsigned, fraction-free inputs: a non-empty sequence
\* of <digits><unit> components; anything else is an error.
RECURSIVE ParseComponents(_)
ParseComponents(s) ==
  IF s = <<>> THEN [ok |-> TRUE, d |-> 0]
  ELSE LET nd == LeadDigits(s)
           rest == SubSeq(s, nd + 1, Len(s))
           nu == LeadUnit(rest)
           unit == SubSeq(rest, 1, nu)
           more == ParseComponents(SubSeq(rest, nu + 1, Len(rest)))
       IN IF nd = 0 \/ nu = 0 \/ ~(\E i \in 1..6 : UnitNames[i] = unit)
            THEN [ok |-> FALSE, d |-> 0]
          ELSE IF ~more.ok THEN more
          ELSE [ok |-> TRUE,
                d |-> LeadingInt(SubSeq(s, 1, nd), 0)
                        * UnitMillis[CHOOSE i \in 1..6 : UnitNames[i] = unit]
                      + more.d]

\* a parser that reports no error
ParseDuration_lenient(s) ==
  IF ParseComponents(s).ok THEN ParseComponents(s) ELSE [ok |-> TRUE, d |-> 0]

ParseDuration(s) ==
  IF s = <<>> THEN [ok |-> FALSE, d |-> 0] ELSE ParseComponents(s)

\* ------------------------------------------------------------- configuration
\* Sampling-rate triples <<MemoryProfileRate, CPUProfileRate, MutexProfileFraction>>
RateProfiles == { <<1, 0, 0>>, <<0, 250, 5>> }

AllConfigs ==
  { [CPU |-> c, Memory |-> m, Block |-> b, Goroutine |-> g, Mutex |-> x,
     Interval |-> i, MemoryProfileRate |-> r[1], CPUProfileRate |-> r[2],
     MutexProfileFraction |-> r[3]] :
      c \in BOOLEAN, m \in BOOLEAN, b \in BOOLEAN, g \in BOOLEAN,
      x \in BOOLEAN, i \in Intervals, r \in RateProfiles }

EnabledKinds(c) ==
  {k \in Kinds : \/ k = "cpu" /\ c.CPU
                 \/ k = "mem" /\ c.Memory
                 \/ k = "block" /\ c.Block
                 \/ k = "goroutine" /\ c.Goroutine
                 \/ k = "mutex" /\ c.Mutex}

\* the configurations explored: no kind, each kind alone, the README's
\* CPU+Memory, and CPU+Block+Mutex
Configs ==
  { c \in AllConfigs :
      \/ Cardinality(EnabledKinds(c)) <= 1
      \/ EnabledKinds(c) = {"cpu", "mem"}
      \/ EnabledKinds(c) = {"cpu", "block", "mutex"} }

\* runtime defaults before any activation
DefaultMemProfileRate == 524288
DefaultCPUHz == 100

VARIABLES
  conf,         \* p.conf, never written after NewProfiler
  terminateCh,  \* p.terminateCh: "open" or "closed"
  closers,      \* p.closers slice header: [arr, len, cap]
  heap,         \* backing arrays of closers slices; an element is a file handle
  files,        \* handles returned by os.Create in startProfilingCPU
  artifacts,    \* names present on disk: <<kind, unix time>>
  cpuProf,      \* pprof's cpu.profiling: 0, or the handle captured into
  cpuHz,        \* runtime CPU sampling rate, 0 when off
  memRate,      \* runtime.MemProfileRate
  blockRate,    \* runtime block profile rate
  mutexFraction,\* runtime mutex profile fraction
  now,          \* time.Now().Unix()
  deadline,     \* clock second at which the timer armed last has expired
  pc,           \* position of each unit of execution
  ret,          \* where each unit continues after its TakeSnapshot
  rng,          \* range p.closers of each unit: [arr, len, i]
  depth,        \* live Run frames of the loop
  crashed,      \* the process died of a panic
  fsFaulty,     \* whether os.Create may fail in this behaviour
  hist          \* observations for the properties; never read by the program

vars == <<conf, terminateCh, closers, heap, files, artifacts, cpuProf, cpuHz,
          memRate, blockRate, mutexFraction, now, deadline, pc, ret, rng,
          depth, crashed, fsFaulty, hist>>

progVars == <<conf, terminateCh, closers, heap, files, artifacts, cpuProf,
              cpuHz, memRate, blockRate, mutexFraction, deadline, depth>>

\* a test that lets every configuration through
isOn_always(c) == TRUE

\* Config.isOn
isOn(c) == c.CPU \/ c.Memory \/ c.Goroutine \/ c.Block \/ c.Mutex

\* outcomes of os.Create
CreateOutcomes == IF fsFaulty THEN {TRUE, FALSE} ELSE {TRUE}

\* Observations kept for the properties:
\*   runCalls, stops, callerSnaps   calls made so far
\*   cycles, timersArmed, loopSnaps timer expiries taken, timers armed and
\*                                  TakeSnapshot calls made by the loop
\*   loopSnapAfterStop              the loop's last TakeSnapshot was entered
\*                                  with the termination channel closed
\*   dropped                        handles that p.closers[:0] removed from the
\*                                  list while still open
\*   activated                      Run was entered since the last return of
\*                                  a TakeSnapshot
\*   snapStart, snapAt, snapActivated
\*                                  artifacts, clock and activated at the
\*                                  entry of the caller's last call
InitHist ==
  [runCalls |-> 0, stops |-> 0, callerSnaps |-> 0, cycles |-> 0,
   timersArmed |-> 0, loopSnaps |-> 0, loopSnapAfterStop |-> FALSE,
   dropped |-> {}, activated |-> FALSE, snapStart |-> {}, snapAt |-> 0,
   snapActivated |-> FALSE, snapNames |-> {}, snapFailed |-> {},
   terms |-> 0, terminated |-> FALSE,
   termSnap |-> [armed |-> 0, snaps |-> 0],
   cpuFailed |-> FALSE,
   entry |-> [cpuProf |-> 0, closers |-> 0, memRate |-> 0, blockRate |-> 0,
              mutexFraction |-> 0, armed |-> 0]]

NewProfiler(c) ==
  /\ conf = c
  /\ terminateCh = "open"
  /\ closers = [arr |-> 0, len |-> 0, cap |-> 0]
  /\ heap = <<>>
  /\ files = <<>>
  /\ artifacts = {}
  /\ cpuProf = 0
  /\ cpuHz = 0
  /\ memRate = DefaultMemProfileRate
  /\ blockRate = 0
  /\ mutexFraction = 0
  /\ now = 0
  /\ deadline = 0
  /\ pc = [p \in Procs |-> "idle"]
  /\ ret = [p \in Procs |-> "idle"]
  /\ rng = [p \in Procs |-> [arr |-> 0, len |-> 0, i |-> 0]]
  /\ depth = 0
  /\ crashed = FALSE
  /\ hist = InitHist

\* ------------------------------------------------------------ step ordering
\* The statements of Run and of TakeSnapshot that are guarded by a
\* configuration flag; a unit goes from one to the next one whose flag is set.
RunOrder == <<"run_cpu", "run_mem", "run_block", "run_mutex", "run_sched">>
SnapOrder == <<"ts_cpu", "ts_mem", "ts_block", "ts_goroutine", "ts_mutex", "ts_range">>

\* the memory snapshot tested against the CPU flag
Guarded_memOnCPU(step) ==
  CASE step \in {"run_cpu", "ts_cpu", "ts_mem"} -> conf.CPU
    [] step = "run_mem" -> conf.Memory
    [] step \in {"run_block", "ts_block"} -> conf.Block
    [] step = "ts_goroutine" -> conf.Goroutine
    [] step \in {"run_mutex", "ts_mutex"} -> conf.Mutex
    [] OTHER -> TRUE

Guarded(step) ==
  CASE step \in {"run_cpu", "ts_cpu"} -> conf.CPU
    [] step \in {"run_mem", "ts_mem"} -> conf.Memory
    [] step \in {"run_block", "ts_block"} -> conf.Block
    [] step = "ts_goroutine" -> conf.Goroutine
    [] step \in {"run_mutex", "ts_mutex"} -> conf.Mutex
    [] OTHER -> TRUE

FirstFrom(order, i) ==
  order[CHOOSE j \in i..Len(order) :
          Guarded(order[j]) /\ \A k \in i..(j - 1) : ~Guarded(order[k])]

IndexOf(order, step) == CHOOSE j \in 1..Len(order) : order[j] = step

RunFirst == FirstFrom(RunOrder, 1)
RunAfter(step) == FirstFrom(RunOrder, IndexOf(RunOrder, step) + 1)
SnapFirst == FirstFrom(SnapOrder, 1)

\* TakeSnapshot leaves for the cleanup after the first kind it has written
SnapAfter_first(step) == "ts_range"

SnapAfter(step) == FirstFrom(SnapOrder, IndexOf(SnapOrder, step) + 1)

InSnapshot(p) ==
  pc[p] \in {"ts_cpu", "ts_mem", "ts_block", "ts_goroutine", "ts_mutex",
             "ts_range", "ts_iter", "ts_clear"}
InActivation(p) ==
  pc[p] \in {"run_cpu", "cpu_start", "cpu_append", "run_mem", "run_block",
             "run_mutex", "run_sched"}
Other(p) == CHOOSE q \in Procs : q # p

\* ------------------------------------------------- runtime and slice helpers
\* runtime.SetCPUProfileRate: refused while a non-zero rate is in effect
SetCPUProfileRate(cur, hz) == IF cur # 0 /\ hz # 0 THEN cur ELSE hz

\* runtime.SetMutexProfileFraction: a negative rate only reads
SetMutexProfileFraction(cur, rate) == IF rate < 0 THEN cur ELSE rate

\* append(p.closers, c): in place while len < cap, else into a new array of
\* grown capacity holding a copy of the first len elements
GrownCap(c) == IF c = 0 THEN 1 ELSE 2 * c

AppendHeap(hp, sl, f) ==
  IF sl.len < sl.cap
    THEN [hp EXCEPT ![sl.arr][sl.len + 1] = f]
    ELSE Append(hp, [k \in 1..GrownCap(sl.cap) |->
                       IF k <= sl.len THEN hp[sl.arr][k]
                       ELSE IF k = sl.len + 1 THEN f ELSE 0])

\* the result of append is not stored back (as with a value receiver)
AppendSlice_lost(hp, sl) == sl

AppendSlice(hp, sl) ==
  IF sl.len < sl.cap
    THEN [sl EXCEPT !.len = sl.len + 1]
    ELSE [arr |-> Len(hp) + 1, len |-> sl.len + 1, cap |-> GrownCap(sl.cap)]

\* the list is left as it is
Truncate_keep(sl) == sl

\* p.closers[:0]: same array and capacity, length 0
Truncate(sl) == [sl EXCEPT !.len = 0]

\* the handles the slice p.closers currently lists
Listed == { heap[closers.arr][k] : k \in 1..closers.len }

\* f.Close() inside a registered closer
CloseFile(fs, f) ==
  [fs EXCEPT ![f] = [@ EXCEPT !.open = FALSE, !.closes = @ + 1]]

\* a name without the timestamp
WriteArtifact_unstamped(kind, ok) ==
  IF ok THEN artifacts \cup {<<kind, 0>>} ELSE artifacts

\* os.Create(name) followed by a successful write: the name exists on disk
WriteArtifact(kind, ok) ==
  IF ok THEN artifacts \cup {<<kind, now>>} ELSE artifacts

\* what one statement of the caller's TakeSnapshot did for a kind: the name
\* written (kind, timestamp in the name), or the kind whose artifact failed
NoteOutcome(h, p, kind, ts, ok) ==
  IF p # "caller" THEN h
  ELSE IF ok THEN [h EXCEPT !.snapNames = @ \cup {<<kind, ts>>}]
  ELSE [h EXCEPT !.snapFailed = @ \cup {kind}]

\* a failed os.Create in a snapshot writer panics
SnapshotErrorPanics_yes == TRUE

\* a failed os.Create in a snapshot writer is logged (log.Println), no panic
SnapshotErrorPanics == FALSE

\* a failed os.Create in startProfilingCPU is logged only
ActivationErrorPanics_no == FALSE

\* a failed os.Create in startProfilingCPU panics (lines 118-120)
ActivationErrorPanics == TRUE

\* the state a Run invocation finds at its entry (line 49)
AtEntry ==
  [cpuProf |-> cpuProf, closers |-> closers.len, memRate |-> memRate,
   blockRate |-> blockRate, mutexFraction |-> mutexFraction,
   armed |-> hist.timersArmed]

\* entry of TakeSnapshot with one continuation kept for both units
BeginSnapshot_sharedRet(p, r, h) ==
  /\ pc' = [pc EXCEPT ![p] = SnapFirst]
  /\ ret' = [q \in Procs |-> r]
  /\ hist' = IF p = "caller"
               THEN [h EXCEPT !.snapStart = artifacts, !.snapAt = now,
                              !.snapActivated = h.activated,
                              !.snapNames = {}, !.snapFailed = {}]
               ELSE h

\* entry of TakeSnapshot by unit p, continuing at r afterwards
BeginSnapshot(p, r, h) ==
  /\ pc' = [pc EXCEPT ![p] = SnapFirst]
  /\ ret' = [ret EXCEPT ![p] = r]
  /\ hist' = IF p = "caller"
               THEN [h EXCEPT !.snapStart = artifacts, !.snapAt = now,
                              !.snapActivated = h.activated,
                              !.snapNames = {}, !.snapFailed = {}]
               ELSE h

\* ------------------------------------------------------------------- Run
\* Run is entered (go prof.Run(), or a later call once the previous returned)
Run ==
  /\ ~crashed
  /\ pc["loop"] \in {"idle", "done"}
  /\ hist.runCalls < MaxRunCalls
  /\ depth' = 1
  /\ pc' = [pc EXCEPT !["loop"] = RunFirst]
  /\ hist' = [hist EXCEPT !.runCalls = @ + 1, !.activated = TRUE,
                          !.terminated = FALSE, !.entry = AtEntry]
  /\ UNCHANGED <<conf, terminateCh, closers, heap, files, artifacts, cpuProf,
                 cpuHz, memRate, blockRate, mutexFraction, now, deadline, ret,
                 rng, crashed, fsFaulty>>

\* lines 50-53 and startProfilingCPU up to os.Create (panic on failure)
startProfilingCPU ==
  /\ ~crashed
  /\ pc["loop"] = "run_cpu"
  /\ cpuHz' = IF conf.CPUProfileRate > 0
                THEN SetCPUProfileRate(cpuHz, conf.CPUProfileRate) ELSE cpuHz
  /\ \E ok \in CreateOutcomes :
       IF ok
         THEN /\ files' = Append(files, [ts |-> now, open |-> TRUE, closes |-> 0])
              /\ artifacts' = WriteArtifact("cpu", TRUE)
              /\ pc' = [pc EXCEPT !["loop"] = "cpu_start"]
              /\ crashed' = FALSE
              /\ UNCHANGED hist
         ELSE /\ crashed' = ActivationErrorPanics
              /\ hist' = [hist EXCEPT !.cpuFailed = TRUE]
              /\ pc' = IF crashed' THEN pc
                                   ELSE [pc EXCEPT !["loop"] = RunAfter("run_cpu")]
              /\ UNCHANGED <<files, artifacts>>
  /\ UNCHANGED <<conf, terminateCh, closers, heap, cpuProf, memRate, blockRate,
                 mutexFraction, now, deadline, ret, rng, depth, fsFaulty>>

\* pprof.StartCPUProfile(f): an error, only logged, while a capture is active
StartCPUProfile ==
  /\ ~crashed
  /\ pc["loop"] = "cpu_start"
  /\ IF cpuProf # 0
       THEN UNCHANGED <<cpuProf, cpuHz>>
       ELSE /\ cpuProf' = Len(files)
            /\ cpuHz' = SetCPUProfileRate(cpuHz, DefaultCPUHz)
  /\ pc' = [pc EXCEPT !["loop"] = "cpu_append"]
  /\ UNCHANGED hist
  /\ UNCHANGED <<conf, terminateCh, closers, heap, files, artifacts, memRate,
                 blockRate, mutexFraction, now, deadline, ret, rng, depth,
                 crashed, fsFaulty>>

\* p.closers = append(p.closers, func() { f.Close() })
RegisterCloser ==
  /\ ~crashed
  /\ pc["loop"] = "cpu_append"
  /\ heap' = AppendHeap(heap, closers, Len(files))
  /\ closers' = AppendSlice(heap, closers)
  /\ pc' = [pc EXCEPT !["loop"] = RunAfter("run_cpu")]
  /\ UNCHANGED hist
  /\ UNCHANGED <<conf, terminateCh, files, artifacts, cpuProf, cpuHz, memRate,
                 blockRate, mutexFraction, now, deadline, ret, rng, depth,
                 crashed, fsFaulty>>

\* runtime.MemProfileRate = p.conf.MemoryProfileRate
ActivateMemory ==
  /\ ~crashed
  /\ pc["loop"] = "run_mem"
  /\ memRate' = conf.MemoryProfileRate
  /\ pc' = [pc EXCEPT !["loop"] = RunAfter("run_mem")]
  /\ UNCHANGED hist
  /\ UNCHANGED <<conf, terminateCh, closers, heap, files, artifacts, cpuProf,
                 cpuHz, blockRate, mutexFraction, now, deadline, ret, rng,
                 depth, crashed, fsFaulty>>

\* block recording turned on by the outermost invocation of Run only
ActivateBlock_firstOnly ==
  /\ ~crashed
  /\ pc["loop"] = "run_block"
  /\ blockRate' = IF depth = 1 THEN 1 ELSE blockRate
  /\ pc' = [pc EXCEPT !["loop"] = RunAfter("run_block")]
  /\ UNCHANGED hist
  /\ UNCHANGED <<conf, terminateCh, closers, heap, files, artifacts, cpuProf,
                 cpuHz, memRate, mutexFraction, now, deadline, ret, rng,
                 depth, crashed, fsFaulty>>

\* runtime.SetBlockProfileRate(1)
ActivateBlock ==
  /\ ~crashed
  /\ pc["loop"] = "run_block"
  /\ blockRate' = 1
  /\ pc' = [pc EXCEPT !["loop"] = RunAfter("run_block")]
  /\ UNCHANGED hist
  /\ UNCHANGED <<conf, terminateCh, closers, heap, files, artifacts, cpuProf,
                 cpuHz, memRate, mutexFraction, now, deadline, ret, rng,
                 depth, crashed, fsFaulty>>

\* runtime.SetMutexProfileFraction(p.conf.MutexProfileFraction)
ActivateMutex ==
  /\ ~crashed
  /\ pc["loop"] = "run_mutex"
  /\ mutexFraction' = SetMutexProfileFraction(mutexFraction, conf.MutexProfileFraction)
  /\ pc' = [pc EXCEPT !["loop"] = RunAfter("run_mutex")]
  /\ UNCHANGED hist
  /\ UNCHANGED <<conf, terminateCh, closers, heap, files, artifacts, cpuProf,
                 cpuHz, memRate, blockRate, now, deadline, ret, rng, depth,
                 crashed, fsFaulty>>

\* lines 66-72: the mode test, ParseDuration and time.NewTimer
Schedule ==
  /\ ~crashed
  /\ pc["loop"] = "run_sched"
  /\ LET parsed == ParseDuration(conf.Interval)
     IN IF isOn(conf) /\ conf.Interval # StrEmpty
          THEN IF ~parsed.ok
                 THEN /\ pc' = [pc EXCEPT !["loop"] = "run_ret"]
                      /\ UNCHANGED hist
                      /\ UNCHANGED deadline
                 ELSE /\ deadline' = now + (parsed.d \div Second)
                      /\ pc' = [pc EXCEPT !["loop"] = "wait"]
                      /\ hist' = [hist EXCEPT !.timersArmed = @ + 1]
          ELSE /\ pc' = [pc EXCEPT !["loop"] = "run_ret"]
               /\ UNCHANGED hist
               /\ UNCHANGED deadline
  /\ UNCHANGED <<conf, terminateCh, closers, heap, files, artifacts, cpuProf,
                 cpuHz, memRate, blockRate, mutexFraction, now, ret, rng,
                 depth, crashed, fsFaulty>>

\* the timer case re-enters Run without taking the snapshot
TimerExpired_noSnapshot ==
  /\ ~crashed
  /\ pc["loop"] = "wait"
  /\ now >= deadline
  /\ hist.cycles < MaxCycles
  /\ pc' = [pc EXCEPT !["loop"] = "recurse"]
  /\ hist' = [hist EXCEPT !.cycles = @ + 1]
  /\ UNCHANGED <<conf, terminateCh, closers, heap, files, artifacts, cpuProf,
                 cpuHz, memRate, blockRate, mutexFraction, now, deadline, ret,
                 rng, depth, crashed, fsFaulty>>

\* select, case <-timer.C: p.TakeSnapshot() (then p.Run())
TimerExpired ==
  /\ ~crashed
  /\ pc["loop"] = "wait"
  /\ now >= deadline
  /\ hist.cycles < MaxCycles
  /\ BeginSnapshot("loop", "recurse",
                   [hist EXCEPT !.cycles = @ + 1, !.loopSnaps = @ + 1,
                                !.loopSnapAfterStop = (terminateCh = "closed")])
  /\ UNCHANGED <<conf, terminateCh, closers, heap, files, artifacts, cpuProf,
                 cpuHz, memRate, blockRate, mutexFraction, now, deadline, rng,
                 depth, crashed, fsFaulty>>

\* the termination case returns at once
Terminated_noSnapshot ==
  /\ ~crashed
  /\ pc["loop"] = "wait"
  /\ terminateCh = "closed"
  /\ pc' = [pc EXCEPT !["loop"] = "run_ret"]
  /\ UNCHANGED <<conf, terminateCh, closers, heap, files, artifacts, cpuProf,
                 cpuHz, memRate, blockRate, mutexFraction, now, deadline, ret,
                 rng, depth, crashed, fsFaulty, hist>>

\* the termination case followed by p.Run(), as in the timer case
AfterTerminate_again == "recurse"

\* line 79: nothing follows p.TakeSnapshot() in the termination case
AfterTerminate == "run_ret"

\* select, case <-p.terminateCh: p.TakeSnapshot()
Terminated ==
  /\ ~crashed
  /\ pc["loop"] = "wait"
  /\ terminateCh = "closed"
  /\ BeginSnapshot("loop", AfterTerminate,
                   [hist EXCEPT !.loopSnaps = @ + 1,
                                !.loopSnapAfterStop = (terminateCh = "closed"),
                                !.terms = @ + 1, !.terminated = TRUE,
                                !.termSnap = [armed |-> hist.timersArmed,
                                              snaps |-> hist.loopSnaps + 1]])
  /\ UNCHANGED <<conf, terminateCh, closers, heap, files, artifacts, cpuProf,
                 cpuHz, memRate, blockRate, mutexFraction, now, deadline, rng,
                 depth, crashed, fsFaulty>>

\* line 77: p.Run() from the timer branch
Recurse ==
  /\ ~crashed
  /\ pc["loop"] = "recurse"
  /\ depth' = depth + 1
  /\ pc' = [pc EXCEPT !["loop"] = RunFirst]
  /\ hist' = [hist EXCEPT !.activated = TRUE, !.entry = AtEntry]
  /\ UNCHANGED <<conf, terminateCh, closers, heap, files, artifacts, cpuProf,
                 cpuHz, memRate, blockRate, mutexFraction, now, deadline, ret,
                 rng, crashed, fsFaulty>>

\* a Run frame returns (to the frame that called it at line 77, or to its caller)
RunReturn ==
  /\ ~crashed
  /\ pc["loop"] = "run_ret"
  /\ depth' = depth - 1
  /\ pc' = [pc EXCEPT !["loop"] = IF depth > 1 THEN "run_ret" ELSE "done"]
  /\ UNCHANGED <<conf, terminateCh, closers, heap, files, artifacts, cpuProf,
                 cpuHz, memRate, blockRate, mutexFraction, now, deadline, ret,
                 rng, crashed, fsFaulty, hist>>

\* ---------------------------------------------------------- TakeSnapshot
\* takeCPUSnapshot without the call of pprof.StopCPUProfile
takeCPUSnapshot_skip(p) ==
  /\ ~crashed
  /\ pc[p] = "ts_cpu"
  /\ pc' = [pc EXCEPT ![p] = SnapAfter("ts_cpu")]
  /\ UNCHANGED <<conf, terminateCh, closers, heap, files, artifacts, cpuProf,
                 cpuHz, memRate, blockRate, mutexFraction, now, deadline, ret,
                 rng, depth, crashed, fsFaulty, hist>>

\* takeCPUSnapshot: pprof.StopCPUProfile(), a no-op when no capture is active
takeCPUSnapshot(p) ==
  /\ ~crashed
  /\ pc[p] = "ts_cpu"
  /\ cpuProf' = 0
  /\ cpuHz' = IF cpuProf # 0 THEN 0 ELSE cpuHz
  /\ pc' = [pc EXCEPT ![p] = SnapAfter("ts_cpu")]
  /\ hist' = IF cpuProf # 0
               THEN NoteOutcome(hist, p, "cpu", files[cpuProf].ts, TRUE)
               ELSE hist
  /\ UNCHANGED <<conf, terminateCh, closers, heap, files, artifacts, memRate,
                 blockRate, mutexFraction, now, deadline, ret, rng, depth,
                 crashed, fsFaulty>>

\* takeMemorySnapshot: create <prefix>mem.<now>.pprof, write, close
takeMemorySnapshot(p) ==
  /\ ~crashed
  /\ pc[p] = "ts_mem"
  /\ \E ok \in CreateOutcomes :
       /\ artifacts' = WriteArtifact("mem", ok)
       /\ hist' = NoteOutcome(hist, p, "mem", now, ok)
       /\ crashed' = (~ok /\ SnapshotErrorPanics)
  /\ pc' = IF crashed' THEN pc ELSE [pc EXCEPT ![p] = SnapAfter("ts_mem")]
  /\ UNCHANGED <<conf, terminateCh, closers, heap, files, cpuProf, cpuHz,
                 memRate, blockRate, mutexFraction, now, deadline, ret, rng,
                 depth, fsFaulty>>

\* takeBlockSnapshot: create, write, close, then SetBlockProfileRate(0)
takeBlockSnapshot(p) ==
  /\ ~crashed
  /\ pc[p] = "ts_block"
  /\ \E ok \in CreateOutcomes :
       /\ artifacts' = WriteArtifact("block", ok)
       /\ hist' = NoteOutcome(hist, p, "block", now, ok)
       /\ crashed' = (~ok /\ SnapshotErrorPanics)
  /\ blockRate' = 0
  /\ pc' = IF crashed' THEN pc ELSE [pc EXCEPT ![p] = SnapAfter("ts_block")]
  /\ UNCHANGED <<conf, terminateCh, closers, heap, files, cpuProf, cpuHz,
                 memRate, mutexFraction, now, deadline, ret, rng, depth, fsFaulty>>

\* takeGoroutineSnapshot: create, write, close
takeGoroutineSnapshot(p) ==
  /\ ~crashed
  /\ pc[p] = "ts_goroutine"
  /\ \E ok \in CreateOutcomes :
       /\ artifacts' = WriteArtifact("goroutine", ok)
       /\ hist' = NoteOutcome(hist, p, "goroutine", now, ok)
       /\ crashed' = (~ok /\ SnapshotErrorPanics)
  /\ pc' = IF crashed' THEN pc ELSE [pc EXCEPT ![p] = SnapAfter("ts_goroutine")]
  /\ UNCHANGED <<conf, terminateCh, closers, heap, files, cpuProf, cpuHz,
                 memRate, blockRate, mutexFraction, now, deadline, ret, rng,
                 depth, fsFaulty>>

\* takeMutexSnapshot: create, write, close
takeMutexSnapshot(p) ==
  /\ ~crashed
  /\ pc[p] = "ts_mutex"
  /\ \E ok \in CreateOutcomes :
       /\ artifacts' = WriteArtifact("mutex", ok)
       /\ hist' = NoteOutcome(hist, p, "mutex", now, ok)
       /\ crashed' = (~ok /\ SnapshotErrorPanics)
  /\ pc' = IF crashed' THEN pc ELSE [pc EXCEPT ![p] = SnapAfter("ts_mutex")]
  /\ UNCHANGED <<conf, terminateCh, closers, heap, files, cpuProf, cpuHz,
                 memRate, blockRate, mutexFraction, now, deadline, ret, rng,
                 depth, fsFaulty>>

\* for _, c := range p.closers: the slice header is read once, here
RangeClosers(p) ==
  /\ ~crashed
  /\ pc[p] = "ts_range"
  /\ rng' = [rng EXCEPT ![p] = [arr |-> closers.arr, len |-> closers.len, i |-> 1]]
  /\ pc' = [pc EXCEPT ![p] = IF closers.len = 0 THEN "ts_clear" ELSE "ts_iter"]
  /\ UNCHANGED <<conf, terminateCh, closers, heap, files, artifacts, cpuProf,
                 cpuHz, memRate, blockRate, mutexFraction, now, deadline, ret,
                 depth, crashed, fsFaulty, hist>>

\* one iteration: c := element i of the array read at the range; c()
CallCloser(p) ==
  /\ ~crashed
  /\ pc[p] = "ts_iter"
  /\ files' = CloseFile(files, heap[rng[p].arr][rng[p].i])
  /\ rng' = [rng EXCEPT ![p].i = @ + 1]
  /\ pc' = [pc EXCEPT ![p] = IF rng[p].i + 1 > rng[p].len THEN "ts_clear" ELSE "ts_iter"]
  /\ UNCHANGED <<conf, terminateCh, closers, heap, artifacts, cpuProf, cpuHz,
                 memRate, blockRate, mutexFraction, now, deadline, ret, depth,
                 crashed, fsFaulty, hist>>

\* p.closers = p.closers[:0], and TakeSnapshot returns
ClearClosers(p) ==
  /\ ~crashed
  /\ pc[p] = "ts_clear"
  /\ closers' = Truncate(closers)
  /\ rng' = [rng EXCEPT ![p] = [arr |-> 0, len |-> 0, i |-> 0]]
  /\ pc' = [pc EXCEPT ![p] = ret[p]]
  /\ hist' = [hist EXCEPT !.dropped = @ \cup { f \in Listed : files[f].open },
                          !.activated = FALSE]
  /\ UNCHANGED <<conf, terminateCh, heap, files, artifacts, cpuProf, cpuHz,
                 memRate, blockRate, mutexFraction, now, deadline, ret, depth,
                 crashed, fsFaulty>>

\* ----------------------------------------------------------------- caller
\* the caller invokes prof.TakeSnapshot()
TakeSnapshot ==
  /\ ~crashed
  /\ pc["caller"] = "idle"
  /\ hist.callerSnaps < MaxCallerSnaps
  /\ BeginSnapshot("caller", "idle", [hist EXCEPT !.callerSnaps = @ + 1])
  /\ UNCHANGED <<conf, terminateCh, closers, heap, files, artifacts, cpuProf,
                 cpuHz, memRate, blockRate, mutexFraction, now, deadline, rng,
                 depth, crashed, fsFaulty>>

\* Stop: close(p.terminateCh) on an open channel
Stop ==
  /\ ~crashed
  /\ pc["caller"] = "idle"
  /\ hist.stops < MaxStops
  /\ terminateCh = "open"
  /\ terminateCh' = "closed"
  /\ hist' = [hist EXCEPT !.stops = @ + 1]
  /\ UNCHANGED <<conf, closers, heap, files, artifacts, cpuProf, cpuHz,
                 memRate, blockRate, mutexFraction, now, deadline, pc, ret,
                 rng, depth, crashed, fsFaulty>>

\* a second Stop that finds the channel closed and does nothing
StopAgain_noop ==
  /\ ~crashed
  /\ pc["caller"] = "idle"
  /\ hist.stops < MaxStops
  /\ terminateCh = "closed"
  /\ hist' = [hist EXCEPT !.stops = @ + 1]
  /\ UNCHANGED <<conf, terminateCh, closers, heap, files, artifacts, cpuProf,
                 cpuHz, memRate, blockRate, mutexFraction, now, deadline, pc,
                 ret, rng, depth, crashed, fsFaulty>>

\* Stop: close(p.terminateCh) on a closed channel panics
StopAgain ==
  /\ ~crashed
  /\ pc["caller"] = "idle"
  /\ hist.stops < MaxStops
  /\ terminateCh = "closed"
  /\ crashed' = TRUE
  /\ hist' = [hist EXCEPT !.stops = @ + 1]
  /\ UNCHANGED <<conf, terminateCh, closers, heap, files, artifacts, cpuProf,
                 cpuHz, memRate, blockRate, mutexFraction, now, deadline, pc,
                 ret, rng, depth, fsFaulty>>

\* ------------------------------------------------------------ environment
\* the wall clock reaches the next second
Tick ==
  /\ ~crashed
  /\ now < MaxClock
  /\ now' = now + 1
  /\ UNCHANGED <<conf, terminateCh, closers, heap, files, artifacts, cpuProf,
                 cpuHz, memRate, blockRate, mutexFraction, deadline, pc, ret,
                 rng, depth, crashed, fsFaulty, hist>>

\* --------------------------------------------------------- specifications
\* Run's entry phase, up to the select or the return
ActivationStep ==
  \/ Run \/ startProfilingCPU \/ StartCPUProfile \/ RegisterCloser
  \/ ActivateMemory \/ ActivateBlock \/ ActivateMutex \/ Schedule
  \/ RunReturn

LoopStep ==
  \/ ActivationStep
  \/ TimerExpired \/ Terminated \/ Recurse

SnapshotStep(p) ==
  \/ takeCPUSnapshot(p) \/ takeMemorySnapshot(p) \/ takeBlockSnapshot(p)
  \/ takeGoroutineSnapshot(p) \/ takeMutexSnapshot(p)
  \/ RangeClosers(p) \/ CallCloser(p) \/ ClearClosers(p)

\* a unit is not inside Run's activation or a TakeSnapshot
Quiet(p) == pc[p] \in {"idle", "wait", "done"}

\* Operations one at a time: the caller calls
\* TakeSnapshot only while the loop is blocked at the select (or not running),
\* and the loop proceeds only while the caller is between calls.  Stop is
\* free.  The clock stands still, so only a sub-second timer expires.
Init == \E c \in Configs : NewProfiler(c) /\ fsFaulty = FALSE

Next ==
  \/ Quiet("caller") /\ LoopStep
  \/ \E p \in Procs : SnapshotStep(p)
  \/ Quiet("loop") /\ TakeSnapshot
  \/ Stop \/ StopAgain

Spec == Init /\ [][Next]_vars

\* Manual use: the configurations with which Run returns from its entry phase
\* (no kind enabled, or an empty or malformed interval), and a caller that
\* calls TakeSnapshot between calls of Run.
InitManual ==
  \E c \in Configs :
     /\ EnabledKinds(c) = {} \/ c.Interval \in {StrEmpty, StrBanana}
     /\ NewProfiler(c) /\ fsFaulty = FALSE

NextManual ==
  \/ Quiet("caller") /\ ActivationStep
  \/ SnapshotStep("caller")
  \/ Quiet("loop") /\ TakeSnapshot
  \/ Tick

SpecManual == InitManual /\ [][NextManual]_vars

\* Run in its own goroutine and a caller that only calls Stop, at any point of
\* the loop's execution (Stop is a single statement).
InitStop == \E c \in Configs : NewProfiler(c) /\ fsFaulty = FALSE

NextStop ==
  \/ LoopStep
  \/ SnapshotStep("loop")
  \/ Stop
  \/ Tick

SpecStop == InitStop /\ [][NextStop]_vars

\* The same with the clock standing still (a sub-second timer expires, a
\* longer one does not before Stop), under the scheduling the Go runtime
\* gives: the goroutine running Run is scheduled as long as it can take a
\* step, and a select that finds the termination channel closed again and
\* again takes that case eventually (select chooses uniformly among its
\* ready cases).
NextStopLive ==
  \/ LoopStep
  \/ SnapshotStep("loop")
  \/ Stop

SpecStopLive ==
  /\ InitStop /\ [][NextStopLive]_vars
  /\ WF_vars(LoopStep \/ SnapshotStep("loop"))
  /\ SF_vars(Terminated)

\* The loop and the caller interleaved statement by statement, for one direct
\* TakeSnapshot, with the clock standing still.
InitConc == \E c \in Configs : NewProfiler(c) /\ fsFaulty = FALSE

NextConc ==
  \/ LoopStep
  \/ \E p \in Procs : SnapshotStep(p)
  \/ hist.callerSnaps = 0 /\ TakeSnapshot
  \/ Stop

SpecConc == InitConc /\ [][NextConc]_vars

\* A file system on which any os.Create may fail (missing directory, rights,
\* descriptors exhausted): the loop, a caller that calls TakeSnapshot between
\* the loop's steps, and Stop, with the clock standing still.
InitFaulty == \E c \in Configs : NewProfiler(c) /\ fsFaulty = TRUE

NextFaulty ==
  \/ Quiet("caller") /\ LoopStep
  \/ \E p \in Procs : SnapshotStep(p)
  \/ Quiet("loop") /\ TakeSnapshot
  \/ Stop

SpecFaulty == InitFaulty /\ [][NextFaulty]_vars

\* ======================================================================
\* Properties
\* ======================================================================
ValidInterval(c) == c.Interval \in {Str100ms, Str1s}
MalformedInterval(c) == c.Interval = StrBanana
KindArtifacts(k) == { a \in artifacts : a[1] = k }
FileIds == 1..Len(files)

\* every subsystem the configuration enables is as Run's entry phase leaves it
Activated ==
  /\ conf.CPU => /\ cpuProf \in FileIds
                 /\ files[cpuProf].open
                 /\ files[cpuProf].closes = 0
                 /\ cpuProf \in Listed
                 /\ cpuHz = IF conf.CPUProfileRate > 0
                              THEN conf.CPUProfileRate ELSE DefaultCPUHz
  /\ conf.Memory => memRate = conf.MemoryProfileRate
  /\ conf.Block => blockRate = 1
  /\ conf.Mutex => mutexFraction = conf.MutexProfileFraction

\* no subsystem has been touched since construction
Untouched ==
  /\ files = <<>> /\ closers.len = 0 /\ cpuProf = 0 /\ cpuHz = 0
  /\ memRate = DefaultMemProfileRate /\ blockRate = 0 /\ mutexFraction = 0

\* C4: with no kind enabled, whatever the interval string, Run goes from its
\* entry straight to the mode test and returns: it never reaches the select,
\* arms no timer, takes no snapshot, activates nothing, and no artifact exists.
C4_NoKindRunIsInert ==
  EnabledKinds(conf) = {} =>
     /\ pc["loop"] \in {"idle", "run_sched", "run_ret", "done"}
     /\ hist.timersArmed = 0
     /\ hist.loopSnaps = 0
     /\ Untouched
     /\ artifacts = {}

C4_Witness ==
  /\ EnabledKinds(conf) = {} /\ conf.Interval = Str100ms
  /\ pc["loop"] = "done" /\ hist.runCalls = 1

\* C5: with exactly one kind enabled and an empty interval, Run never waits;
\* when it has returned the kind's subsystem is activated; and after one
\* TakeSnapshot call made after Run returned exactly one artifact exists, of
\* the enabled kind.
C5_SingleShot ==
  (Cardinality(EnabledKinds(conf)) = 1 /\ conf.Interval = StrEmpty) =>
     /\ pc["loop"] # "wait" /\ hist.timersArmed = 0 /\ hist.loopSnaps = 0
     /\ (pc["loop"] = "done" /\ hist.runCalls = 1 /\ hist.callerSnaps = 0)
          => Activated
     /\ (/\ pc["loop"] = "done" /\ hist.runCalls = 1
         /\ pc["caller"] = "idle" /\ hist.callerSnaps = 1 /\ hist.snapActivated)
          => /\ Cardinality(artifacts) = 1
             /\ \A a \in artifacts : a[1] \in EnabledKinds(conf)

C5_Witness ==
  /\ EnabledKinds(conf) = {"goroutine"} /\ conf.Interval = StrEmpty
  /\ pc["loop"] = "done" /\ hist.runCalls = 1
  /\ pc["caller"] = "idle" /\ hist.callerSnaps = 1 /\ hist.snapActivated
  /\ Cardinality(artifacts) = 1

\* C9: with a kind enabled and an interval string that does not parse, Run
\* never reaches the select, arms no timer and takes no snapshot; when it has
\* returned (and the caller has taken no snapshot) every enabled subsystem is
\* still activated: the CPU capture runs into its open file whose closer is
\* still listed, and the block, mutex and memory rates are as set.
C9_MalformedInterval ==
  (EnabledKinds(conf) # {} /\ MalformedInterval(conf)) =>
     /\ pc["loop"] # "wait" /\ hist.timersArmed = 0 /\ hist.loopSnaps = 0
     /\ (pc["loop"] = "done" /\ hist.runCalls = 1 /\ hist.callerSnaps = 0)
          => Activated

C9_Witness ==
  /\ EnabledKinds(conf) = {"cpu", "block", "mutex"} /\ conf.Interval = StrBanana
  /\ pc["loop"] = "done" /\ hist.runCalls = 1 /\ hist.callerSnaps = 0
  /\ cpuProf = 1 /\ blockRate = 1

\* C1: with a kind enabled and a valid interval, once Stop has closed the
\* termination channel (before Run started, while it waits, or while it
\* writes a snapshot) Run eventually returns; and when Run has returned, the
\* loop's last TakeSnapshot was entered with the channel already closed.
C1_StopEndsRun ==
  /\ []((EnabledKinds(conf) # {} /\ ValidInterval(conf) /\ pc["loop"] = "done")
          => /\ terminateCh = "closed"
             /\ hist.loopSnaps >= 1
             /\ hist.loopSnapAfterStop)
  /\ ((EnabledKinds(conf) # {} /\ ValidInterval(conf) /\ terminateCh = "closed")
        ~> pc["loop"] = "done")

C1_Witness ==
  /\ EnabledKinds(conf) # {} /\ ValidInterval(conf)
  /\ hist.stops = 1 /\ hist.cycles >= 1 /\ hist.runCalls = 1
  /\ pc["loop"] = "done" /\ hist.loopSnapAfterStop

\* C2: with CPU enabled and a valid interval, when the caller only calls Stop,
\* no capture file is ever closed twice, every activation has opened one, and
\* when Run has returned every file opened has been closed exactly once and
\* the cleanup list is empty.
C2_FilesClosedOnce ==
  (conf.CPU /\ ValidInterval(conf)) =>
     /\ \A f \in FileIds : files[f].closes <= 1
     /\ pc["loop"] = "done" =>
          /\ Len(files) = hist.cycles + hist.runCalls
          /\ \A f \in FileIds : ~files[f].open /\ files[f].closes = 1
          /\ closers.len = 0

C2_Witness ==
  /\ conf.CPU /\ ValidInterval(conf)
  /\ pc["loop"] = "done" /\ hist.stops = 1 /\ hist.cycles = 2
  /\ Len(files) = 3 /\ \A f \in FileIds : files[f].closes = 1

\* C3: every registered cleanup runs exactly once, also when the caller's
\* TakeSnapshot runs concurrently with the loop: no file is closed twice and
\* no closer is removed from the list while its file is still open.
C3_CleanupExactlyOnce ==
  /\ \A f \in FileIds : files[f].closes <= 1
  /\ hist.dropped = {}

CallerSnapshotReturned ==
  /\ ~crashed
  /\ pc["caller"] = "idle" /\ hist.callerSnaps >= 1 /\ hist.loopSnaps = 0
  /\ \A a \in hist.snapStart : a[2] < hist.snapAt

FreshSince(k) == \E a \in artifacts \ hist.snapStart : a[1] = k

\* C7 (as stated): after Run has activated the subsystems and returned, each
\* of several consecutive TakeSnapshot calls with no activation in between
\* produces a fresh artifact for every enabled kind, CPU included.
C7_FreshEveryKind ==
  (/\ CallerSnapshotReturned /\ hist.callerSnaps >= 2 /\ ~hist.snapActivated
   /\ pc["loop"] = "done" /\ hist.runCalls = 1)
    => \A k \in EnabledKinds(conf) : FreshSince(k)

\* C7 (amended): TakeSnapshot calls never fail, and each call that begins in
\* a clock second later than every timestamp on disk produces a fresh
\* artifact for every enabled kind other than CPU.
C7_FreshPerCall ==
  /\ ~crashed
  /\ CallerSnapshotReturned
       => \A k \in EnabledKinds(conf) \ {"cpu"} : FreshSince(k)

C7_Witness ==
  /\ CallerSnapshotReturned /\ hist.callerSnaps = 2 /\ ~hist.snapActivated
  /\ EnabledKinds(conf) = {"cpu", "mem"}
  /\ Cardinality(KindArtifacts("mem")) = 2

\* C8: with operations one at a time, from the return of a TakeSnapshot until
\* Run is entered again the cleanup list is empty; no file is ever closed
\* twice; and between operations the list holds only files that are open and
\* were never closed.
C8_CleanupListCleared ==
  /\ \A f \in FileIds : files[f].closes <= 1
  /\ (\A p \in Procs : ~InSnapshot(p)) =>
        /\ \A f \in Listed : files[f].open /\ files[f].closes = 0
        /\ (hist.loopSnaps + hist.callerSnaps > 0 /\ ~hist.activated)
             => closers.len = 0

C8_Witness ==
  /\ \A p \in Procs : ~InSnapshot(p)
  /\ hist.loopSnaps >= 1 /\ hist.callerSnaps >= 1 /\ ~hist.activated
  /\ Len(files) >= 2 /\ \A f \in FileIds : files[f].closes = 1
  /\ closers.len = 0

\* C10: with only CPU enabled and a valid interval, a run whose timer expired
\* at least twice before Stop ends with at least two distinct cpu artifacts
\* and no artifact of another kind.
C10_TwoCpuArtifacts ==
  (/\ EnabledKinds(conf) = {"cpu"} /\ ValidInterval(conf)
   /\ pc["loop"] = "done" /\ hist.runCalls = 1 /\ hist.cycles >= 2)
    => /\ Cardinality(KindArtifacts("cpu")) >= 2
       /\ artifacts = KindArtifacts("cpu")

\* C11: on a file system where any os.Create may fail, a snapshot writer whose
\* artifact cannot be created never ends the program, every other enabled kind
\* of the same TakeSnapshot still writes its artifact unless its own creation
\* failed, and the call still runs and clears the pending cleanups: after it
\* returned, and until the next activation, the list is empty, every file is
\* closed and block recording is off.
C11_FailureSkipsOnlyThatKind ==
  /\ crashed => hist.cpuFailed /\ \A p \in Procs : ~InSnapshot(p)
  /\ pc["caller"] = "idle" /\ hist.callerSnaps >= 1 =>
       /\ hist.snapNames \subseteq artifacts
       /\ \A k \in EnabledKinds(conf) \ {"cpu"} :
             (k \in hist.snapFailed) # (\E n \in hist.snapNames : n[1] = k)
       /\ ~hist.activated /\ ~InSnapshot("loop") =>
             /\ closers.len = 0
             /\ \A f \in FileIds : ~files[f].open
             /\ cpuProf = 0
             /\ blockRate = 0

\* the block artifact failed, the mutex artifact of the same call was written,
\* and the CPU file was closed and dropped from the list
C11_Witness ==
  /\ pc["caller"] = "idle" /\ hist.callerSnaps >= 1 /\ ~crashed
  /\ "block" \in hist.snapFailed
  /\ \E n \in hist.snapNames : n[1] = "mutex"
  /\ ~hist.activated /\ closers.len = 0
  /\ \E f \in FileIds : ~files[f].open /\ files[f].closes = 1

\* C12: in every execution in which Stop is called, a CPU file that is open
\* is eventually closed (whatever the interval, also after Run has returned).
C12_StopClosesHandle ==
  (conf.CPU /\ terminateCh = "closed" /\ \E f \in FileIds : files[f].open)
    ~> (\A f \in FileIds : ~files[f].open)

\* C13: every wait the loop reaches is left through exactly one of the two
\* cases of the select, and that case takes exactly one snapshot: the timers
\* armed are the timer cases taken plus the termination cases taken plus the
\* wait in progress, and the loop's snapshots are the cases taken.  A wait at
\* which the timer has expired or the channel is closed is eventually left
\* (the model follows the loop for MaxCycles timer cases).
C13_ExactlyOneBranch ==
  /\ [](hist.timersArmed
          = hist.cycles + hist.terms + (IF pc["loop"] = "wait" THEN 1 ELSE 0))
  /\ [](hist.loopSnaps = hist.cycles + hist.terms)
  /\ [](InSnapshot("loop") => ret["loop"] \in {"recurse", "run_ret"})
  /\ (pc["loop"] = "wait"
        /\ (terminateCh = "closed" \/ (now >= deadline /\ hist.cycles < MaxCycles)))
       ~> (pc["loop"] # "wait")

\* the timer had expired and the channel was closed at the same select, and
\* the timer case alone was taken: its snapshot is in progress
C13_Witness ==
  /\ InSnapshot("loop") /\ ret["loop"] = "recurse"
  /\ hist.loopSnapAfterStop /\ now >= deadline
  /\ hist.terms = 0 /\ hist.loopSnaps = hist.cycles

\* C14: once the termination case is taken, the loop executes that one
\* TakeSnapshot and then only returns, frame by frame, until the outermost
\* Run has returned: it arms no timer, takes no other snapshot and enters no
\* activation.  The snapshot of the termination case never starts while the
\* channel is open.
C14_TerminationEndsRun ==
  /\ hist.terminated =>
       /\ \/ InSnapshot("loop") /\ ret["loop"] = "run_ret"
          \/ pc["loop"] \in {"run_ret", "done"}
       /\ hist.timersArmed = hist.termSnap.armed
       /\ hist.loopSnaps = hist.termSnap.snaps
       /\ pc["loop"] = "done" => depth = 0
  /\ InSnapshot("loop") /\ ret["loop"] = "run_ret" => terminateCh = "closed"

\* the termination case was taken in a nested invocation (after a timer case)
\* and every frame has returned
C14_Witness ==
  /\ hist.terminated /\ hist.cycles >= 1 /\ hist.runCalls = 1
  /\ pc["loop"] = "done" /\ depth = 0
  /\ hist.loopSnaps = hist.cycles + 1

\* C15: when os.Create fails in startProfilingCPU the program ends there, and
\* the Run invocation in which it failed has started no CPU capture,
\* registered no cleanup, activated none of memory, block and mutex profiling
\* and armed no timer: all of these are as the invocation found them.
C15_CpuCreateFailureAborts ==
  hist.cpuFailed =>
    /\ crashed /\ pc["loop"] = "run_cpu"
    /\ cpuProf = hist.entry.cpuProf
    /\ closers.len = hist.entry.closers
    /\ memRate = hist.entry.memRate
    /\ blockRate = hist.entry.blockRate
    /\ mutexFraction = hist.entry.mutexFraction
    /\ hist.timersArmed = hist.entry.armed

\* the cpu file of the first invocation could not be created, with block and
\* mutex profiling enabled and an interval configured
C15_Witness ==
  /\ hist.cpuFailed /\ crashed
  /\ conf.Block /\ conf.Mutex /\ ValidInterval(conf)
  /\ depth = 1 /\ hist.runCalls = 1
  /\ blockRate = 0 /\ cpuProf = 0 /\ closers.len = 0 /\ hist.timersArmed = 0

\* C16: every step of a TakeSnapshot that the caller makes while Run is
\* blocked at the select leaves unchanged the armed timer, the termination
\* channel and the configuration, and with them everything that decides what
\* the loop does next: its position, its continuation, the depth of its
\* invocations and the number of timer cases it has taken.
C16_DirectSnapshotFrame ==
  [][ (pc["loop"] = "wait" /\ (InSnapshot("caller") \/ InSnapshot("caller")'))
        => /\ UNCHANGED <<deadline, now, terminateCh, conf, depth>>
           /\ pc'["loop"] = pc["loop"] /\ ret'["loop"] = ret["loop"]
           /\ hist'.cycles = hist.cycles
           /\ hist'.timersArmed = hist.timersArmed
           /\ hist'.loopSnaps = hist.loopSnaps ]_vars

\* the caller's TakeSnapshot is at its last statement, having stopped the CPU
\* capture of the cycle, while the loop waits on an expired timer
C16_Witness ==
  /\ pc["caller"] = "ts_clear" /\ pc["loop"] = "wait"
  /\ conf.CPU /\ cpuProf = 0
  /\ terminateCh = "open" /\ now >= deadline /\ hist.cycles < MaxCycles

\* C17: all the artifacts of one TakeSnapshot (the cpu file whose capture it
\* ends included) carry the same timestamp in their names, also when the
\* clock advances during the call or between the CPU activation and the call.
C17_OneTimestampPerSnapshot ==
  \A a, b \in hist.snapNames : a[2] = b[2]

\* C17 as the code has it: the artifacts of one TakeSnapshot exist under
\* names that differ in their kind label, one name for each kind, so no two
\* share a name; every artifact written by the call carries the second at
\* which its own writer ran, between the start of the call and now, and the
\* cpu file carries the second of the activation that created it, not later
\* than the start of the call.
C17_TimestampPerArtifact ==
  /\ hist.snapNames \subseteq artifacts
  /\ \A a, b \in hist.snapNames : a[1] = b[1] => a = b
  /\ \A n \in hist.snapNames :
        IF n[1] = "cpu" THEN n[2] <= hist.snapAt
                        ELSE hist.snapAt <= n[2] /\ n[2] <= now

\* one call whose three artifacts carry three different seconds
C17_Witness ==
  /\ pc["caller"] = "idle" /\ hist.callerSnaps >= 1
  /\ hist.snapNames = {<<"cpu", 0>>, <<"block", 1>>, <<"mutex", 2>>}

\* C18: before any Stop the channel is open; the first Stop closes it and
\* returns, the program running on; a second Stop ends the program in an
\* error state (the close of a closed channel panics).
C18_SecondStopFails ==
  /\ hist.stops = 0 => terminateCh = "open" /\ ~crashed
  /\ hist.stops = 1 => terminateCh = "closed" /\ ~crashed
  /\ hist.stops >= 2 => terminateCh = "closed" /\ crashed

\* Stop was called twice, the second time after Run had returned
C18_Witness ==
  hist.stops = 2 /\ crashed /\ pc["loop"] = "done" /\ hist.loopSnapAfterStop

\* C19: with CPU enabled and a valid interval, for one call of Run and no
\* direct TakeSnapshot, whenever Run is blocked at the select exactly one CPU
\* capture is active, exactly one cpu file is open, the one the capture
\* writes to, and p.closers holds exactly one closer, that of this file; and
\* pprof.StartCPUProfile is never called while a capture is active.
C19_OneCaptureWhileWaiting ==
  (conf.CPU /\ ValidInterval(conf) /\ hist.runCalls = 1 /\ hist.callerSnaps = 0)
    => /\ pc["loop"] = "wait" =>
            /\ cpuProf \in FileIds
            /\ { f \in FileIds : files[f].open } = {cpuProf}
            /\ closers.len = 1
            /\ Listed = {cpuProf}
       /\ pc["loop"] = "cpu_start" => cpuProf = 0

\* the loop waits in its second cycle: the first cpu file is closed, the
\* second is open and listed
C19_Witness ==
  /\ conf.CPU /\ ValidInterval(conf) /\ hist.runCalls = 1
  /\ pc["loop"] = "wait" /\ hist.cycles = 1
  /\ Len(files) = 2 /\ cpuProf = 2 /\ ~files[1].open
  /\ closers.len = 1

\* C20 as stated: with Block enabled, block recording is on (rate 1)
\* whenever Run is blocked at the select.
C20_RecordingOnAtWait ==
  (conf.Block /\ pc["loop"] = "wait") => blockRate = 1

\* C20 as the code has it: with Block enabled, block recording is on (rate 1)
\* whenever Run is blocked at the select and no TakeSnapshot has run since the activation of
\* the cycle; and once a TakeSnapshot has returned, recording is off (rate 0)
\* until the next activation: after a single-shot Run, after a direct
\* snapshot of the caller, after the final snapshot.
C20_BlockRecording ==
  conf.Block =>
    /\ (pc["loop"] = "wait" /\ hist.activated /\ ~InSnapshot("caller"))
         => blockRate = 1
    /\ (/\ ~hist.activated /\ hist.loopSnaps + hist.callerSnaps >= 1
        /\ \A p \in Procs : ~InSnapshot(p))
         => blockRate = 0

\* the loop waits in its second cycle with recording on again
C20_Witness ==
  /\ conf.Block /\ pc["loop"] = "wait" /\ hist.cycles >= 1
  /\ hist.activated /\ ~InSnapshot("caller") /\ blockRate = 1

====